---- MODULE Spec2Model ----
(***************************************************************************)
(* A model of the ai-diary backend: the express handlers of the server     *)
(* (src/unnamed/part_000), the entries table (src/unnamed/part_002) and    *)
(* the oracle helpers (src/src/deepseek.js).                               *)
(*                                                                         *)
(* Text is a sequence of characters.  A request field that may be absent   *)
(* (undefined in JavaScript) is a record [has, text].  The oracle is the   *)
(* environment: each of its replies is a choice among a small set.         *)
(***************************************************************************)
EXTENDS Integers, Sequences, FiniteSets, TLC

VARIABLES
    clock,      \* the wall clock, in milliseconds within the current second
    store,      \* the rows of table entries, in insertion (rowid) order
    creates,    \* the POST /api/entries requests, one record per request
    listResp,   \* the response of the GET /api/entries request
    fan,        \* the GET /api/judge-all or GET /api/sabotage request
    fc,         \* the POST /api/forecast request
    batch,      \* the POST /api/comments-batch request
    det,        \* the POST /api/future-detailed request
    cm,         \* the POST /api/comment request
    full,       \* the POST /api/future-full request
    ext,        \* an oracle reply and what an extractor made of it
    oracleLog   \* every oracle call issued so far: [fn, by, arg]

vars == <<clock, store, creates, listResp, fan, fc, batch, det, cm, full, ext, oracleLog>>

\* the handlers' variables but one
exCreates == <<listResp, fan, fc, batch, det, cm, full, ext>>
exList == <<creates, fan, fc, batch, det, cm, full, ext>>
exFan == <<creates, listResp, fc, batch, det, cm, full, ext>>
exForecast == <<creates, listResp, fan, batch, det, cm, full, ext>>
exBatch == <<creates, listResp, fan, fc, det, cm, full, ext>>
exDetailed == <<creates, listResp, fan, fc, batch, cm, full, ext>>
exComment == <<creates, listResp, fan, fc, batch, det, full, ext>>
exFull == <<creates, listResp, fan, fc, batch, det, cm, ext>>
exExtract == <<creates, listResp, fan, fc, batch, det, cm, full>>
handlers == <<creates, listResp, fan, fc, batch, det, cm, full, ext>>

----------------------------------------------------------------------------
(* Bounds of the model *)

MaxCreates == 2
MaxTicks == 2
ClockStart == 98
MaxRows == 3
MaxTextLen == 3
MaxItems == 2
MaxRawLen == 4
MaxRequests == 3

----------------------------------------------------------------------------
(* Values *)

Missing == [has |-> FALSE, text |-> << >>]
Given(t) == [has |-> TRUE, text |-> t]

CreateBodies == {Missing, Given(<< >>), Given(<<"a">>)}

EmotionKeys == {"joy", "sadness", "anger", "fear"}

\* Replies of the sentiment oracle used when entries are created.
SampleAnalyses ==
    { [score |-> 1, label |-> "positive",
       emotions |-> [k \in EmotionKeys |-> IF k = "joy" THEN 1 ELSE 0]],
      [score |-> -1, label |-> "negative",
       emotions |-> [k \in {"sadness"} |-> 3]] }

----------------------------------------------------------------------------
(* created_at: new Date().toISOString() and its order as TEXT *)

MsDigits == 3

RECURSIVE Pow10(_)
Pow10(n) == IF n = 0 THEN 1 ELSE 10 * Pow10(n - 1)

\* decimal digits of t without padding
RECURSIVE Digits(_)
Digits(t) == IF t < 10 THEN <<t>> ELSE Append(Digits(t \div 10), t % 10)

\* a timestamp rendered without zero padding (not what toISOString does)
ToISOStringUnpadded(t) == Digits(t)

\* toISOString renders every field zero-padded to a fixed width; within one
\* second only the 3-digit millisecond field varies, and it is what is kept.
ToISOString(t) == [i \in 1..MsDigits |-> (t \div Pow10(MsDigits - i)) % 10]

\* SQLite compares TEXT with the BINARY collation: bytewise, a proper prefix
\* is smaller.
RECURSIVE StrLess(_, _)
StrLess(a, b) ==
    IF a = << >> THEN b /= << >>
    ELSE IF b = << >> THEN FALSE
    ELSE IF Head(a) /= Head(b) THEN Head(a) < Head(b)
    ELSE StrLess(Tail(a), Tail(b))

StrLeq(a, b) == a = b \/ StrLess(a, b)

----------------------------------------------------------------------------
(* The entries table *)

\* JSON.stringify of an emotions object: a string, which has no keys
Stringify(m) == [json |-> m]

NewEntry(id, body, analysis, now) ==
    [id |-> id,
     content |-> body,
     sentiment_score |-> analysis.score,
     sentiment_label |-> analysis.label,
     emotions |-> Stringify(analysis.emotions),
     created_at |-> ToISOString(now)]

\* uuidv4(): an identifier no stored row has
FreshId(s) == Len(s) + 1

\* an insert that empties the table first
ReplaceRows(s, row) == <<row>>

InsertRow(s, row) == Append(s, row)

IndexPerms(n) ==
    { p \in [1..n -> 1..n] : \A i, j \in 1..n : i /= j => p[i] /= p[j] }

\* the order of two keys under ORDER BY created_at ASC, or DESC
KeyLeq(a, b, desc) == IF desc THEN StrLeq(b, a) ELSE StrLeq(a, b)

\* SELECT * FROM entries ORDER BY created_at: the results the query may
\* return, rows with equal keys coming in any order
SelectAllOrdered(s, desc) ==
    { [i \in 1..Len(s) |-> s[p[i]]] : p \in
        { q \in IndexPerms(Len(s)) :
            \A i \in 1..(Len(s) - 1) :
                KeyLeq(s[q[i]].created_at, s[q[i + 1]].created_at, desc) } }

SelectAsc(s) == SelectAllOrdered(s, FALSE)

\* the listing ordered the other way
SelectDescWrong(s) == SelectAllOrdered(s, FALSE)

SelectDesc(s) == SelectAllOrdered(s, TRUE)

----------------------------------------------------------------------------
(* The oracle call log *)

Call(fn, by, arg) == [fn |-> fn, by |-> by, arg |-> arg]

----------------------------------------------------------------------------
(* POST /api/entries *)

NoEntry == [id |-> 0]

IdleCreate == [pc |-> "idle", body |-> Missing, status |-> 0, entry |-> NoEntry]

\* the handler up to its await: read content, call analyzeText(content);
\* the requests are numbered in the order they arrive
CreateBegin(r, body) ==
    /\ creates[r].pc = "idle"
    /\ r > 1 => creates[r - 1].pc /= "idle"
    /\ creates' = [creates EXCEPT ![r] = [@ EXCEPT !.pc = "analyzing", !.body = body]]
    /\ oracleLog' = oracleLog \cup {Call("analyzeText", <<"create", r, 0>>, body)}
    /\ UNCHANGED <<clock, store, exCreates>>

\* analyzeText resolved: build the entry, insert it, answer with it
CreateInsert(r, analysis) ==
    /\ creates[r].pc = "analyzing"
    /\ LET entry == NewEntry(FreshId(store), creates[r].body, analysis, clock)
       IN /\ store' = InsertRow(store, entry)
          /\ creates' = [creates EXCEPT ![r] =
                [@ EXCEPT !.pc = "done", !.status = 200, !.entry = entry]]
    /\ UNCHANGED <<clock, exCreates, oracleLog>>

\* analyzeText threw (transport failure or unparseable reply), or the insert
\* threw: the catch answers 500
CreateFail(r) ==
    /\ creates[r].pc = "analyzing"
    /\ creates' = [creates EXCEPT ![r] = [@ EXCEPT !.pc = "done", !.status = 500]]
    /\ UNCHANGED <<clock, store, exCreates, oracleLog>>

----------------------------------------------------------------------------
(* GET /api/entries *)

\* one request, received at any moment
GetEntries ==
    /\ ~listResp.sent
    /\ \E rows \in SelectDesc(store) :
          listResp' = [sent |-> TRUE, rows |-> rows]
    /\ UNCHANGED <<clock, store, exList, oracleLog>>

----------------------------------------------------------------------------
(* GET /api/judge-all and GET /api/sabotage *)

Kinds == {"judge", "sabotage"}

\* replies of judgeAction and of detectSabotage, once parsed
Judgments ==
    { [benefit |-> 7, risk |-> 2, morality |-> 9,
       consequences |-> "fine", verdict |-> "do it"],
      [benefit |-> 1, risk |-> 8, morality |-> 3,
       consequences |-> "harm", verdict |-> "do not"] }

Sabotages ==
    { [procrastination |-> 0, self_deception |-> 1, loops |-> 2, summary |-> "ok"],
      [procrastination |-> 9, self_deception |-> 8, loops |-> 7, summary |-> "stuck"] }

Replies(kind) == IF kind = "judge" THEN Judgments ELSE Sabotages

FanFn(kind) == IF kind = "judge" THEN "judgeAction" ELSE "detectSabotage"

FanError(kind) ==
    IF kind = "judge" THEN [error |-> "AI judge failed"]
    ELSE [error |-> "Sabotage detector is not working"]

\* the object the map callback returns for one entry
FanResult(kind, entry, reply) ==
    IF kind = "judge"
    THEN [id |-> entry.id, date |-> entry.created_at, content |-> entry.content,
          benefit |-> reply.benefit, risk |-> reply.risk,
          morality |-> reply.morality, consequences |-> reply.consequences,
          verdict |-> reply.verdict]
    ELSE [id |-> entry.id, date |-> entry.created_at, content |-> entry.content,
          procrastination |-> reply.procrastination,
          self_deception |-> reply.self_deception,
          loops |-> reply.loops, summary |-> reply.summary]

\* rows.map(async ...) calls the oracle once per row before the first await
\* of the handler returns control
FanCalls(kind, rows) ==
    { Call(FanFn(kind), <<kind, 1, i>>, rows[i].content) : i \in 1..Len(rows) }

NoResult == [id |-> 0]

\* the answer of the history forecasts when there are no rows
NoEntriesMessage == [forecast |-> "No entries available for historical analysis"]

\* the early return of the history forecasts, pasted unchanged
EmptyResultsAsMessage == NoEntriesMessage

\* the answer of judge-all and sabotage when there are no rows
EmptyResults == [results |-> << >>]

\* the first slot not yet filled
FirstFree(results) ==
    CHOOSE i \in 1..Len(results) :
        /\ results[i] = NoResult
        /\ \A j \in 1..(i - 1) : results[j] /= NoResult

\* results gathered in the order the calls complete
CollectInCompletionOrder(results, i, v) ==
    [results EXCEPT ![FirstFree(results)] = v]

\* Promise.all keeps the value of the i-th promise at index i
Collect(results, i, v) == [results EXCEPT ![i] = v]

IdleFan ==
    [pc |-> "idle", kind |-> "judge", rows |-> << >>, pending |-> {},
     results |-> << >>, order |-> << >>, failed |-> {}, sent |-> 0,
     status |-> 0, body |-> EmptyResults]

\* the handler up to its await: read the rows, answer at once when there are
\* none, else start one oracle call per row
FanBegin(kind) ==
    /\ fan.pc = "idle"
    /\ \E rows \in SelectAsc(store) :
          IF Len(rows) = 0
          THEN /\ fan' = [fan EXCEPT !.pc = "done", !.kind = kind, !.rows = rows,
                             !.sent = 1, !.status = 200, !.body = EmptyResults]
               /\ UNCHANGED oracleLog
          ELSE /\ fan' = [fan EXCEPT !.pc = "waiting", !.kind = kind, !.rows = rows,
                             !.pending = 1..Len(rows),
                             !.results = [i \in 1..Len(rows) |-> NoResult]]
               /\ oracleLog' = oracleLog \cup FanCalls(kind, rows)
    /\ UNCHANGED <<clock, store, exFan>>

\* the oracle call for row i resolved; when it was the last one Promise.all
\* resolves and the handler answers with the results
FanCallOk(i, reply) ==
    /\ i \in fan.pending
    /\ reply \in Replies(fan.kind)
    /\ LET results == Collect(fan.results, i, FanResult(fan.kind, fan.rows[i], reply))
           pending == fan.pending \ {i}
       IN IF fan.pc = "waiting"
          THEN IF pending = {}
               THEN fan' = [fan EXCEPT !.pc = "done", !.pending = pending,
                               !.results = results, !.order = Append(@, i),
                               !.sent = @ + 1, !.status = 200,
                               !.body = [results |-> results]]
               ELSE fan' = [fan EXCEPT !.pending = pending, !.results = results,
                               !.order = Append(@, i)]
          ELSE fan' = [fan EXCEPT !.pending = pending, !.order = Append(@, i)]
    /\ UNCHANGED <<clock, store, exFan, oracleLog>>

\* the oracle call for row i threw: Promise.all rejects on the first such
\* call and the catch answers 500; the other calls run on, unobserved
FanCallFail(i) ==
    /\ i \in fan.pending
    /\ IF fan.pc = "waiting"
       THEN fan' = [fan EXCEPT !.pc = "done", !.pending = @ \ {i},
                       !.order = Append(@, i), !.failed = @ \cup {i},
                       !.sent = @ + 1, !.status = 500,
                       !.body = FanError(fan.kind)]
       ELSE fan' = [fan EXCEPT !.pending = @ \ {i}, !.order = Append(@, i),
                       !.failed = @ \cup {i}]
    /\ UNCHANGED <<clock, store, exFan, oracleLog>>

----------------------------------------------------------------------------
(* Text *)

\* the code units String.prototype.trim removes: WhiteSpace (TAB, VT, FF,
\* SP, NBSP, ZWNBSP and the other space separators) and LineTerminator (LF,
\* CR, LS, PS); those without an escape are written by their code point
Whitespace ==
    {"\t", "U+000B", "\f", " ", "U+00A0", "U+FEFF",
     "U+1680", "U+2000", "U+2001", "U+2002", "U+2003", "U+2004", "U+2005",
     "U+2006", "U+2007", "U+2008", "U+2009", "U+200A", "U+202F", "U+205F",
     "U+3000",
     "\n", "\r", "U+2028", "U+2029"}

\* the white space of the JSON grammar
JSONWhitespace == {" ", "\t", "\n", "\r"}

\* String.prototype.trim
RECURSIVE TrimStart(_)
TrimStart(t) ==
    IF t /= << >> /\ Head(t) \in Whitespace THEN TrimStart(Tail(t)) ELSE t

RECURSIVE TrimEnd(_)
TrimEnd(t) ==
    IF t /= << >> /\ t[Len(t)] \in Whitespace
    THEN TrimEnd(SubSeq(t, 1, Len(t) - 1)) ELSE t

\* a check that forgets to trim
NoTrim(t) == t

Trim(t) == TrimEnd(TrimStart(t))

\* !text for an absent or string field
Falsy(body) == ~body.has \/ body.text = << >>

SeqsUpTo(chars, n) == UNION { [1..k -> chars] : k \in 0..n }

\* comments the oracle may return
Comments == {"c1", "c2"}

----------------------------------------------------------------------------
(* POST /api/forecast *)

ForecastBodies ==
    {Missing} \cup { Given(t) : t \in SeqsUpTo({" ", "\n", "\t", "x"}, MaxTextLen) }

IdleForecast == [pc |-> "idle", body |-> Missing, status |-> 0, forecast |-> ""]

\* if (!text || !text.trim())
ForecastRejects(body) == Falsy(body) \/ Trim(body.text) = << >>

\* the handler up to its await: 400 on no text, else one oracle call with
\* the text embedded in the prompt
ForecastBegin(body) ==
    /\ fc.pc = "idle"
    /\ IF ForecastRejects(body)
       THEN /\ fc' = [fc EXCEPT !.pc = "done", !.body = body, !.status = 400]
            /\ UNCHANGED oracleLog
       ELSE /\ fc' = [fc EXCEPT !.pc = "waiting", !.body = body]
            /\ oracleLog' = oracleLog \cup
                  {Call("generateDailyComment", <<"forecast", 1, 0>>, body)}
    /\ UNCHANGED <<clock, store, exForecast>>

ForecastReplyOk(text) ==
    /\ fc.pc = "waiting"
    /\ fc' = [fc EXCEPT !.pc = "done", !.status = 200, !.forecast = text]
    /\ UNCHANGED <<clock, store, exForecast, oracleLog>>

ForecastReplyFail ==
    /\ fc.pc = "waiting"
    /\ fc' = [fc EXCEPT !.pc = "done", !.status = 500]
    /\ UNCHANGED <<clock, store, exForecast, oracleLog>>

----------------------------------------------------------------------------
(* POST /api/comments-batch *)

Items == [id : 1..2, content : {<<"a">>, <<"b">>}]

\* the entries field of the request: absent, or a list of items
BatchInputs ==
    {[has |-> FALSE, list |-> << >>]} \cup
    { [has |-> TRUE, list |-> l] : l \in SeqsUpTo(Items, MaxItems) }

Placeholder == "AI unavailable"

BatchPush(results, item, comment) ==
    Append(results, [id |-> item.id, comment |-> comment])

\* a failed item left out of the results
OnItemFailureSkip(results, item) == results

\* the inner catch
OnItemFailure(results, item) == BatchPush(results, item, Placeholder)

IdleBatch ==
    [pc |-> "idle", input |-> [has |-> FALSE, list |-> << >>], idx |-> 0,
     results |-> << >>, replies |-> << >>, status |-> 0,
     body |-> [results |-> << >>]]

BatchCall(item, i) == Call("generateDailyComment", <<"batch", 1, i>>, Given(item.content))

\* after item idx: the next item's oracle call, or the response
BatchAdvance(results, replies) ==
    IF batch.idx = Len(batch.input.list)
    THEN /\ batch' = [batch EXCEPT !.pc = "done", !.results = results,
                         !.replies = replies, !.status = 200,
                         !.body = [results |-> results]]
         /\ UNCHANGED oracleLog
    ELSE /\ batch' = [batch EXCEPT !.idx = @ + 1, !.results = results,
                         !.replies = replies]
         /\ oracleLog' = oracleLog \cup
               {BatchCall(batch.input.list[batch.idx + 1], batch.idx + 1)}

\* the handler up to its first await; iterating an absent entries field
\* throws into the outer catch
BatchBegin(input) ==
    /\ batch.pc = "idle"
    /\ IF ~input.has
       THEN /\ batch' = [batch EXCEPT !.pc = "done", !.input = input, !.status = 500,
                            !.body = [error |-> "Batch processing failed"]]
            /\ UNCHANGED oracleLog
       ELSE IF input.list = << >>
       THEN /\ batch' = [batch EXCEPT !.pc = "done", !.input = input, !.status = 200]
            /\ UNCHANGED oracleLog
       ELSE /\ batch' = [batch EXCEPT !.pc = "waiting", !.input = input, !.idx = 1]
            /\ oracleLog' = oracleLog \cup {BatchCall(input.list[1], 1)}
    /\ UNCHANGED <<clock, store, exBatch>>

BatchReplyOk(comment) ==
    /\ batch.pc = "waiting"
    /\ BatchAdvance(BatchPush(batch.results, batch.input.list[batch.idx], comment),
                    Append(batch.replies, [ok |-> TRUE, comment |-> comment]))
    /\ UNCHANGED <<clock, store, exBatch>>

BatchReplyFail ==
    /\ batch.pc = "waiting"
    /\ BatchAdvance(OnItemFailure(batch.results, batch.input.list[batch.idx]),
                    Append(batch.replies, [ok |-> FALSE, comment |-> ""]))
    /\ UNCHANGED <<clock, store, exBatch>>

----------------------------------------------------------------------------
(* POST /api/future-detailed *)

Labels == {"positive", "neutral", "negative"}

\* emotions objects the sentiment oracle may return: complete, with keys
\* left out, or already serialised as a string
EmotionReplies ==
    { [k \in EmotionKeys |-> IF k = "joy" THEN 1 ELSE 0],
      [k \in EmotionKeys |-> IF k = "joy" THEN 3 ELSE 0],
      [k \in {"joy", "anger"} |-> IF k = "joy" THEN 2 ELSE 1],
      Stringify([k \in EmotionKeys |-> IF k = "fear" THEN 3 ELSE 1]) }

Analyses == [score : {0}, label : Labels, emotions : EmotionReplies]

IsString(v) == DOMAIN v = {"json"}

\* typeof analysis.emotions === "string" ? JSON.parse(...) : analysis.emotions
ParsedEmotions(v) == IF IsString(v) THEN v.json ELSE v

\* r.emotions[k] || 0
Intensity(emotions, k) == IF k \in DOMAIN emotions THEN emotions[k] ELSE 0

RECURSIVE EmotionSum(_, _)
EmotionSum(results, k) ==
    IF results = << >> THEN 0
    ELSE EmotionSum(SubSeq(results, 1, Len(results) - 1), k)
         + Intensity(results[Len(results)].emotions, k)

\* a quotient cut to 2 decimals instead of rounded, in hundredths
Truncate2(sum, n) == (100 * sum) \div n

\* the binary digits of a / b after the leading one, from remainder r: left
\* is the number of digits still to produce, last the digit produced before;
\* the result is the last digit and the remainder after it
RECURSIVE QuotientBits(_, _, _, _)
QuotientBits(r, b, left, last) ==
    IF left = 0 THEN [last |-> last, rem |-> r]
    ELSE IF 2 * r >= b THEN QuotientBits(2 * r - b, b, left - 1, 1)
    ELSE QuotientBits(2 * r, b, left - 1, 0)

\* a and b scaled by powers of two until b <= a < 2b
RECURSIVE Normalise(_, _)
Normalise(a, b) ==
    IF a < b THEN Normalise(2 * a, b)
    ELSE IF a >= 2 * b THEN Normalise(a, 2 * b)
    ELSE [a |-> a, b |-> b]

\* the sign of (the double sum / n) - (the exact quotient), for sum > 0: the
\* division rounds to 53 significant bits, to nearest, ties to even
DoubleSide(sum, n) ==
    LET s == Normalise(sum, n)
        q == QuotientBits(s.a - s.b, s.b, 52, 1)
    IN IF q.rem = 0 THEN 0
       ELSE IF 2 * q.rem > s.b THEN 1
       ELSE IF 2 * q.rem < s.b THEN -1
       ELSE IF q.last = 1 THEN 1 ELSE -1

\* +(sum / n).toFixed(2), in hundredths: the multiple of 0.01 nearest to the
\* double sum / n, the larger one when two are equally near. Away from a
\* midpoint the double lies on the side of the exact quotient; at a midpoint
\* of the exact quotient the double's rounding error decides
ToFixed2(sum, n) ==
    LET lo == (100 * sum) \div n
        rem == 100 * sum - lo * n
    IN IF 2 * rem < n THEN lo
       ELSE IF 2 * rem > n THEN lo + 1
       ELSE IF DoubleSide(sum, n) >= 0 THEN lo + 1 ELSE lo

AvgEmotions(results) ==
    [k \in EmotionKeys |-> ToFixed2(EmotionSum(results, k), Len(results))]

\* sentimentCounts[r.sentiment]++
RECURSIVE SentimentCount(_, _)
SentimentCount(results, label) ==
    IF results = << >> THEN 0
    ELSE SentimentCount(Tail(results), label)
         + (IF Head(results).sentiment = label THEN 1 ELSE 0)

\* a strict majority test
StrictMajority(positive, negative) ==
    IF positive > negative THEN "positive" ELSE "negative"

Majority(positive, negative) ==
    IF positive >= negative THEN "positive" ELSE "negative"

OverallSentiment(results) ==
    Majority(SentimentCount(results, "positive"), SentimentCount(results, "negative"))

Forecast(results) ==
    [overallSentiment |-> OverallSentiment(results),
     avgEmotions |-> AvgEmotions(results),
     advice |-> "See AI recommendations in comments for each day.",
     detailedResults |-> results]

\* an error payload that carries the details gathered before the failure
DetailedErrorWithPartial ==
    [error |-> "Failed to generate detailed forecast", detailedResults |-> det.results]

DetailedError == [error |-> "Failed to generate detailed forecast"]

IdleDetailed ==
    [pc |-> "idle", rows |-> << >>, idx |-> 0, analysis |-> [label |-> ""],
     results |-> << >>, inflight |-> 0, issued |-> << >>, failed |-> FALSE,
     sent |-> 0, status |-> 0, body |-> NoEntriesMessage]

\* a detail put in front of the others
UnshiftDetail(results, d) == <<d>> \o results

\* detailedResults.push({...})
PushDetail(results, d) == Append(results, d)

DetCall(fn, rows, i) == Call(fn, <<"detailed", 1, i>>, rows[i].content)

\* the handler up to its first await: read the rows, answer at once when
\* there are none, else analyse the first
DetailedBegin ==
    /\ det.pc = "idle"
    /\ \E rows \in SelectAsc(store) :
          IF Len(rows) = 0
          THEN /\ det' = [det EXCEPT !.pc = "done", !.sent = @ + 1, !.status = 200,
                             !.body = NoEntriesMessage]
               /\ UNCHANGED oracleLog
          ELSE /\ det' = [det EXCEPT !.pc = "analysis", !.rows = rows, !.idx = 1,
                             !.inflight = 1,
                             !.issued = <<[fn |-> "analyzeText", i |-> 1]>>]
               /\ oracleLog' = oracleLog \cup {DetCall("analyzeText", rows, 1)}
    /\ UNCHANGED <<clock, store, exDetailed>>

\* analyzeText resolved for row idx: parse its emotions, ask for the comment
DetailedAnalysisOk(analysis) ==
    /\ det.pc = "analysis"
    /\ det' = [det EXCEPT !.pc = "comment", !.analysis = analysis,
                  !.inflight = @ - 1 + 1,
                  !.issued = Append(@, [fn |-> "generateDailyComment", i |-> det.idx])]
    /\ oracleLog' = oracleLog \cup {DetCall("generateDailyComment", det.rows, det.idx)}
    /\ UNCHANGED <<clock, store, exDetailed>>

\* generateDailyComment resolved for row idx: push the detail, then analyse
\* the next row, or aggregate and answer
DetailedCommentOk(comment) ==
    /\ det.pc = "comment"
    /\ LET e == det.rows[det.idx]
           results == PushDetail(det.results,
                        [date |-> e.created_at, content |-> e.content,
                         sentiment |-> det.analysis.label,
                         emotions |-> ParsedEmotions(det.analysis.emotions),
                         comment |-> comment])
       IN IF det.idx = Len(det.rows)
          THEN /\ det' = [det EXCEPT !.pc = "done", !.results = results,
                             !.inflight = @ - 1, !.sent = @ + 1, !.status = 200,
                             !.body = Forecast(results)]
               /\ UNCHANGED oracleLog
          ELSE /\ det' = [det EXCEPT !.pc = "analysis", !.results = results,
                             !.idx = @ + 1, !.inflight = @ - 1 + 1,
                             !.issued = Append(@, [fn |-> "analyzeText", i |-> det.idx + 1])]
               /\ oracleLog' = oracleLog \cup
                     {DetCall("analyzeText", det.rows, det.idx + 1)}
    /\ UNCHANGED <<clock, store, exDetailed>>

\* the pending oracle call threw: the catch answers 500
DetailedFail ==
    /\ det.pc \in {"analysis", "comment"}
    /\ det' = [det EXCEPT !.pc = "done", !.inflight = @ - 1, !.failed = TRUE,
                  !.sent = @ + 1, !.status = 500, !.body = DetailedError]
    /\ UNCHANGED <<clock, store, exDetailed, oracleLog>>

----------------------------------------------------------------------------
(* What the extractors do with the oracle's raw text *)

\* The raw text is a sequence of tokens:
\*   "J"  the fence of three backticks and json
\*   "U"  the fence of three backticks and JSON
\*   "F"  the fence of three backticks alone
\*   " "  white space
\*   "{" "}"  braces               "m"  a member with a scalar value, "a":1
\*   "k"  a key and its colon      "p"  a word of prose
RawChars == {"J", "U", "F", " ", "{", "}", "m", "k", "p"}

RawTexts == SeqsUpTo(RawChars, MaxRawLen)

\* what is left of the text of a fence whose tag the pattern did not match
TagResidue == "p"

\* the two replace calls that delete the fences; the tagged pattern has the
\* flags g or gi
RECURSIVE StripFences(_, _)
StripFences(t, ignoreCase) ==
    IF t = << >> THEN << >>
    ELSE LET rest == StripFences(Tail(t), ignoreCase)
         IN CASE Head(t) \in {"J", "F"} -> rest
              [] Head(t) = "U" -> IF ignoreCase THEN rest ELSE <<TagResidue>> \o rest
              [] OTHER -> <<Head(t)>> \o rest

\* the first index at or after i that holds no white space
RECURSIVE SkipWs(_, _)
SkipWs(t, i) ==
    IF i <= Len(t) /\ t[i] \in JSONWhitespace THEN SkipWs(t, i + 1) ELSE i

Closes(t, i) == i <= Len(t) /\ t[i] = "}"

\* the index after the object that starts at i, 0 when none does
RECURSIVE ObjectEnd(_, _)
ObjectEnd(t, i) ==
    IF i > Len(t) \/ t[i] /= "{" THEN 0
    ELSE LET j == SkipWs(t, i + 1)
         IN IF j > Len(t) THEN 0
            ELSE IF t[j] = "}" THEN j + 1
            ELSE IF t[j] = "m"
                 THEN IF Closes(t, SkipWs(t, j + 1)) THEN SkipWs(t, j + 1) + 1 ELSE 0
            ELSE IF t[j] = "k"
                 THEN LET o == ObjectEnd(t, SkipWs(t, j + 1))
                      IN IF o /= 0 /\ Closes(t, SkipWs(t, o)) THEN SkipWs(t, o) + 1 ELSE 0
            ELSE 0

Failure == [ok |-> FALSE, value |-> << >>]

\* JSON.parse: the object, written without its white space, or a SyntaxError
JSONParse(t) ==
    LET e == ObjectEnd(t, SkipWs(t, 1))
    IN IF e /= 0 /\ SkipWs(t, e) > Len(t)
       THEN [ok |-> TRUE, value |-> SelectSeq(t, LAMBDA c : c \notin JSONWhitespace)]
       ELSE Failure

\* String.prototype.indexOf and lastIndexOf, 0-based, -1 when not found
IndexOf(t, c) ==
    IF \E i \in 1..Len(t) : t[i] = c
    THEN (CHOOSE i \in 1..Len(t) : t[i] = c /\ \A j \in 1..(i - 1) : t[j] /= c) - 1
    ELSE -1

LastIndexOf(t, c) ==
    IF \E i \in 1..Len(t) : t[i] = c
    THEN (CHOOSE i \in 1..Len(t) : t[i] = c /\ \A j \in (i + 1)..Len(t) : t[j] /= c) - 1
    ELSE -1

Clamp(t, i) ==
    IF i < 0 THEN (IF Len(t) + i < 0 THEN 0 ELSE Len(t) + i)
    ELSE IF i > Len(t) THEN Len(t) ELSE i

\* String.prototype.slice
Slice(t, start, end) == SubSeq(t, Clamp(t, start) + 1, Clamp(t, end))

\* analyzeText: strip the fences, trim, parse
AnalyzeTextExtract(raw) == JSONParse(Trim(StripFences(raw, FALSE)))

\* detectSabotage: strip the fences, trim, parse
DetectSabotageExtract(raw) == JSONParse(Trim(StripFences(raw, FALSE)))

\* judgeAction: trim, strip the fences whatever their case, trim, keep what
\* lies from the first "{" to the last "}", parse
JudgeActionExtract(raw) ==
    LET cleaned == Trim(StripFences(Trim(raw), TRUE))
        start == IndexOf(cleaned, "{")
        end == LastIndexOf(cleaned, "}") + 1
    IN JSONParse(Slice(cleaned, start, end))

Extractors == {"analyzeText", "judgeAction", "detectSabotage"}

Extract(fn, raw) ==
    CASE fn = "analyzeText" -> AnalyzeTextExtract(raw)
      [] fn = "judgeAction" -> JudgeActionExtract(raw)
      [] fn = "detectSabotage" -> DetectSabotageExtract(raw)

\* fn receives the oracle's reply ext.raw and extracts from it
OracleReply(fn) ==
    /\ ext.fn = "none"
    /\ ext' = [ext EXCEPT !.fn = fn, !.out = Extract(fn, ext.raw)]
    /\ UNCHANGED <<clock, store, exExtract, oracleLog>>

----------------------------------------------------------------------------
(* POST /api/comment *)

IdleComment == [pc |-> "idle", body |-> Missing, status |-> 0, reply |-> [comment |-> ""]]

\* the handler up to its await: read content and call
\* generateDailyComment(content), whatever content is
CommentBegin(body) ==
    /\ cm.pc = "idle"
    /\ cm' = [cm EXCEPT !.pc = "waiting", !.body = body]
    /\ oracleLog' = oracleLog \cup {Call("generateDailyComment", <<"comment", 1, 0>>, body)}
    /\ UNCHANGED <<clock, store, exComment>>

CommentReplyOk(text) ==
    /\ cm.pc = "waiting"
    /\ cm' = [cm EXCEPT !.pc = "done", !.status = 200, !.reply = [comment |-> text]]
    /\ UNCHANGED <<clock, store, exComment, oracleLog>>

CommentReplyFail ==
    /\ cm.pc = "waiting"
    /\ cm' = [cm EXCEPT !.pc = "done", !.status = 500,
                        !.reply = [comment |-> "AI comment unavailable"]]
    /\ UNCHANGED <<clock, store, exComment, oracleLog>>

----------------------------------------------------------------------------
(* POST /api/future-full *)

IdleFull == [pc |-> "idle", rows |-> << >>, status |-> 0, body |-> [forecast |-> ""]]

\* rows.map(e => created_at + ": " + content).join("\n"), line by line
FullText(rows) == [i \in 1..Len(rows) |-> <<rows[i].created_at, rows[i].content>>]

\* the handler up to its await: read the rows in ascending order; answer at
\* once when there are none, else one oracle call on the joined history
FullBegin ==
    /\ full.pc = "idle"
    /\ \E rows \in SelectAsc(store) :
          IF Len(rows) = 0
          THEN /\ full' = [full EXCEPT !.pc = "done", !.status = 200,
                              !.body = NoEntriesMessage]
               /\ UNCHANGED oracleLog
          ELSE /\ full' = [full EXCEPT !.pc = "waiting", !.rows = rows]
               /\ oracleLog' = oracleLog \cup
                     {Call("generateDailyComment", <<"full", 1, 0>>, FullText(rows))}
    /\ UNCHANGED <<clock, store, exFull>>

FullReplyOk(text) ==
    /\ full.pc = "waiting"
    /\ full' = [full EXCEPT !.pc = "done", !.status = 200, !.body = [forecast |-> text]]
    /\ UNCHANGED <<clock, store, exFull, oracleLog>>

FullReplyFail ==
    /\ full.pc = "waiting"
    /\ full' = [full EXCEPT !.pc = "done", !.status = 500,
                        !.body = [forecast |-> "Failed to generate AI forecast"]]
    /\ UNCHANGED <<clock, store, exFull, oracleLog>>

----------------------------------------------------------------------------
(* The clock *)

Tick ==
    /\ clock < ClockStart + MaxTicks
    /\ clock' = clock + 1
    /\ UNCHANGED <<store, handlers, oracleLog>>

----------------------------------------------------------------------------

\* the handlers before any request
InitHandlers ==
    /\ creates = [r \in 1..MaxCreates |-> IdleCreate]
    /\ listResp = [sent |-> FALSE, rows |-> << >>]
    /\ fan = IdleFan
    /\ fc = IdleForecast
    /\ batch = IdleBatch
    /\ det = IdleDetailed
    /\ cm = IdleComment
    /\ full = IdleFull
    /\ ext = [fn |-> "none", raw |-> << >>, out |-> Failure]
    /\ oracleLog = {}

\* the server started on a new database file
Init ==
    /\ clock = ClockStart
    /\ store = << >>
    /\ InitHandlers

Next ==
    \/ Tick
    \/ \E r \in 1..MaxCreates, body \in CreateBodies : CreateBegin(r, body)
    \/ \E r \in 1..MaxCreates, a \in SampleAnalyses : CreateInsert(r, a)
    \/ \E r \in 1..MaxCreates : CreateFail(r)
    \/ GetEntries

Spec == Init /\ [][Next]_vars

\* diary.db outlives the process: the rows earlier runs stored, their
\* created_at non-decreasing in insertion order
Times == ClockStart..(ClockStart + MaxTicks)

PersistedStores ==
    UNION { { [i \in 1..n |->
                 NewEntry(i, Given(IF i % 2 = 1 THEN <<"a">> ELSE <<"b">>),
                          CHOOSE a \in SampleAnalyses : a.label = "positive", ts[i])] :
              ts \in { t \in [1..n -> Times] : \A i \in 1..(n - 1) : t[i] <= t[i + 1] } } :
            n \in 0..MaxRows }

\* the server started on the database file of earlier runs
InitPersisted ==
    /\ clock = ClockStart + MaxTicks
    /\ store \in PersistedStores
    /\ InitHandlers

NextJudge ==
    \/ \E kind \in Kinds : FanBegin(kind)
    \/ \E i \in 1..MaxRows, reply \in Judgments \cup Sabotages : FanCallOk(i, reply)
    \/ \E i \in 1..MaxRows : FanCallFail(i)

SpecJudge == InitPersisted /\ [][NextJudge]_vars

----------------------------------------------------------------------------
(* Claims about POST /api/entries and GET /api/entries, under Spec *)

NonEmpty(body) == body.has /\ body.text /= << >>

NonDecreasing(rows) ==
    \A i \in 1..(Len(rows) - 1) : StrLeq(rows[i].created_at, rows[i + 1].created_at)

NonIncreasing(rows) ==
    \A i \in 1..(Len(rows) - 1) : StrLeq(rows[i + 1].created_at, rows[i].created_at)

StrictlyDecreasing(rows) ==
    \A i \in 1..(Len(rows) - 1) : StrLess(rows[i + 1].created_at, rows[i].created_at)

SameRows(rows, s) ==
    /\ Len(rows) = Len(s)
    /\ \A i \in 1..Len(s) : \E j \in 1..Len(rows) : rows[j] = s[i]

\* request r is answered 200 in this step
Created(r) == creates[r].pc = "analyzing" /\ creates'[r].status = 200

\* C1: a create request with non-empty content whose analysis and insert
\* succeed adds exactly one row to the store, after the rows already there;
\* the row's content is the request's content, and its created_at is greater
\* than or equal to the created_at of every row stored before it.
C1_CreatePersistsOneRow ==
    [][\A r \in 1..MaxCreates :
          (Created(r) /\ NonEmpty(creates[r].body)) =>
             /\ Len(store') = Len(store) + 1
             /\ SubSeq(store', 1, Len(store)) = store
             /\ store'[Len(store')].content = creates[r].body
             /\ creates'[r].entry = store'[Len(store')]
             /\ \A i \in 1..Len(store) :
                   StrLeq(store[i].created_at, store'[Len(store')].created_at)]_vars

\* a second entry with non-empty content was stored at a later millisecond
\* than the first, across a change of the hundreds digit
C1_Witness ==
    /\ Len(store) >= 2
    /\ \E r \in 1..MaxCreates :
          /\ creates[r].status = 200
          /\ NonEmpty(creates[r].body)
          /\ creates[r].entry = store[Len(store)]
    /\ store[1].created_at = ToISOString(99)
    /\ store[Len(store)].created_at = ToISOString(100)

\* C2 (as claimed): in every response of GET /api/entries each entry has a
\* strictly greater created_at than the entry after it.
C2_StrictlyDescending ==
    listResp.sent => StrictlyDecreasing(listResp.rows)

\* C2 (amended): every response of GET /api/entries holds exactly the stored
\* rows, each with a created_at greater than or equal to that of the entry
\* after it, whatever the order of insertion.
C2_DescendingWithTies ==
    [][GetEntries =>
          /\ listResp'.sent
          /\ SameRows(listResp'.rows, store)
          /\ NonIncreasing(listResp'.rows)]_vars

\* a response listing two entries, the later inserted one first
C2_Witness ==
    /\ listResp.sent
    /\ Len(listResp.rows) >= 2
    /\ listResp.rows[1].id > listResp.rows[2].id
    /\ StrLess(listResp.rows[2].created_at, listResp.rows[1].created_at)

\* C9 (as claimed): the sentiment oracle is called only for create requests
\* whose content is present and non-empty, and no row is stored for a request
\* whose content is missing or empty.
C9_ContentValidatedFirst ==
    /\ \A c \in oracleLog :
          (c.fn = "analyzeText" /\ c.by[1] = "create") => NonEmpty(c.arg)
    /\ \A i \in 1..Len(store) : NonEmpty(store[i].content)

----------------------------------------------------------------------------
(* Claims about GET /api/judge-all and GET /api/sabotage, under SpecJudge *)

\* the oracle calls the judge-all or sabotage request has issued
FanLog == { c \in oracleLog : c.by[1] \in Kinds }

\* C5: a judge-all or sabotage request that reads an empty store answers
\* 200 {results: []} in the same step and issues no oracle call, then or
\* later.
C5_EmptyStoreNoOracle ==
    /\ [][(fan.pc = "idle" /\ fan'.pc /= "idle" /\ store = << >>) =>
             /\ fan'.pc = "done"
             /\ fan'.sent = 1
             /\ fan'.status = 200
             /\ fan'.body = [results |-> << >>]
             /\ oracleLog' = oracleLog]_vars
    /\ []((fan.pc /= "idle" /\ fan.rows = << >>) =>
             /\ fan.pending = {}
             /\ FanLog = {})

\* the sabotage endpoint has answered on an empty store
C5_Witness ==
    /\ store = << >>
    /\ fan.pc = "done"
    /\ fan.kind = "sabotage"
    /\ fan.status = 200
    /\ fan.body = [results |-> << >>]
    /\ FanLog = {}

\* C6: once a judge-all or sabotage request has read a non-empty store, one
\* oracle call per row has been issued, all of them before any has
\* completed; the rows were read in ascending created_at order; and a 200
\* response is sent only when no call is pending and lists, at each index i,
\* the id, date and content of the i-th row read, whatever the order in
\* which the calls completed.
C6_ResultsInReadOrder ==
    (fan.pc /= "idle" /\ fan.rows /= << >>) =>
        /\ Cardinality(FanLog) = Len(fan.rows)
        /\ \A i \in 1..Len(fan.rows) :
              Call(FanFn(fan.kind), <<fan.kind, 1, i>>, fan.rows[i].content) \in FanLog
        /\ NonDecreasing(fan.rows)
        /\ SameRows(fan.rows, store)
        /\ fan.status = 200 =>
              /\ fan.pending = {}
              /\ Len(fan.order) = Len(fan.rows)
              /\ Len(fan.body.results) = Len(fan.rows)
              /\ \A i \in 1..Len(fan.rows) :
                    /\ fan.body.results[i].id = fan.rows[i].id
                    /\ fan.body.results[i].date = fan.rows[i].created_at
                    /\ fan.body.results[i].content = fan.rows[i].content

\* a 200 response over three rows whose calls completed last row first
C6_Witness ==
    /\ fan.pc = "done"
    /\ fan.status = 200
    /\ Len(fan.rows) >= 3
    /\ fan.order[1] = Len(fan.rows)
    /\ fan.order[Len(fan.rows)] = 1

----------------------------------------------------------------------------
(* POST /api/forecast alone, and POST /api/comments-batch alone *)

NextForecast ==
    \/ \E body \in ForecastBodies : ForecastBegin(body)
    \/ \E text \in Comments : ForecastReplyOk(text)
    \/ ForecastReplyFail

SpecForecast == Init /\ [][NextForecast]_vars

NextBatch ==
    \/ \E input \in BatchInputs : BatchBegin(input)
    \/ \E comment \in Comments : BatchReplyOk(comment)
    \/ BatchReplyFail

SpecBatch == Init /\ [][NextBatch]_vars

\* no text: absent, empty, or whitespace only
Blank(body) == ~body.has \/ \A i \in 1..Len(body.text) : body.text[i] \in Whitespace

ForecastLog == { c \in oracleLog : c.by[1] = "forecast" }

\* C3: a forecast request whose text is missing, empty or whitespace-only is
\* answered 400 in the step that receives it and issues no oracle call; every
\* oracle call of the endpoint carries a text that is not blank.
C3_BlankTextRejected ==
    /\ (fc.pc /= "idle" /\ Blank(fc.body)) =>
          /\ fc.pc = "done"
          /\ fc.status = 400
          /\ ForecastLog = {}
    /\ \A c \in ForecastLog : ~Blank(c.arg)
    /\ fc.pc = "waiting" => (~Blank(fc.body) /\ ForecastLog /= {})

\* a whitespace-only text was answered 400
C3_Witness ==
    /\ fc.status = 400
    /\ fc.body.has
    /\ Len(fc.body.text) >= 2
    /\ Blank(fc.body)
    /\ ForecastLog = {}

\* C4: when entries is a list, the batch response is 200 and holds one
\* result per item, in input order and with the item's id; the comment of an
\* item whose oracle call failed is the placeholder, that of any other item
\* is what its oracle call returned; while the batch runs, one result has
\* been collected per completed call.
C4_BatchIsolatesFailures ==
    batch.input.has =>
        /\ batch.status \in {0, 200}
        /\ Len(batch.results) = Len(batch.replies)
        /\ batch.pc = "waiting" => Len(batch.results) = batch.idx - 1
        /\ batch.pc = "done" =>
              /\ batch.status = 200
              /\ Len(batch.body.results) = Len(batch.input.list)
              /\ \A i \in 1..Len(batch.input.list) :
                    /\ batch.body.results[i].id = batch.input.list[i].id
                    /\ batch.body.results[i].comment =
                          IF batch.replies[i].ok THEN batch.replies[i].comment
                          ELSE "AI unavailable"

\* a batch of two whose first call failed and whose second succeeded
C4_Witness ==
    /\ batch.pc = "done"
    /\ Len(batch.input.list) = 2
    /\ ~batch.replies[1].ok
    /\ batch.replies[2].ok
    /\ batch.body.results[1].comment = "AI unavailable"
    /\ batch.body.results[2].comment = batch.replies[2].comment

----------------------------------------------------------------------------
(* POST /api/future-detailed alone, on the database of earlier runs *)

\* one store of each size, its rows a millisecond apart while the clock lasts
DetailedStores ==
    { [i \in 1..n |->
         NewEntry(i, Given(IF i % 2 = 1 THEN <<"a">> ELSE <<"b">>),
                  CHOOSE a \in SampleAnalyses : a.label = "positive",
                  IF i - 1 < MaxTicks THEN ClockStart + i - 1 ELSE ClockStart + MaxTicks)] :
      n \in 0..MaxRows }

InitDetailed ==
    /\ clock = ClockStart + MaxTicks
    /\ store \in DetailedStores
    /\ InitHandlers

NextDetailed ==
    \/ DetailedBegin
    \/ \E a \in Analyses : DetailedAnalysisOk(a)
    \/ \E c \in {"c1"} : DetailedCommentOk(c)
    \/ DetailedFail

SpecDetailed == InitDetailed /\ [][NextDetailed]_vars

\* the number of entries of a response with the given label
LabelCount(details, label) ==
    Cardinality({ i \in 1..Len(details) : details[i].sentiment = label })

\* C7: the overallSentiment of a detailed forecast is "positive" when at
\* least as many entries are labelled positive as negative and "negative"
\* otherwise, hence never "neutral"; one positive and one negative entry
\* give "positive", and entries that are all neutral give "positive".
C7_PositiveBiasedMajority ==
    (det.status = 200 /\ det.rows /= << >>) =>
        LET d == det.body.detailedResults
            pos == LabelCount(d, "positive")
            neg == LabelCount(d, "negative")
        IN /\ Len(d) >= 1
           /\ pos >= neg => det.body.overallSentiment = "positive"
           /\ pos < neg => det.body.overallSentiment = "negative"
           /\ det.body.overallSentiment /= "neutral"
           /\ (Len(d) = 2 /\ pos = 1 /\ neg = 1) => det.body.overallSentiment = "positive"
           /\ LabelCount(d, "neutral") = Len(d) => det.body.overallSentiment = "positive"

\* a forecast over one positive and one negative entry
C7_Witness ==
    /\ det.status = 200
    /\ Len(det.rows) = 2
    /\ det.body.detailedResults[1].sentiment = "negative"
    /\ det.body.detailedResults[2].sentiment = "positive"
    /\ det.body.overallSentiment = "positive"

RECURSIVE SumOver(_, _, _)
SumOver(details, k, n) ==
    IF n = 0 THEN 0
    ELSE SumOver(details, k, n - 1)
         + (IF k \in DOMAIN details[n].emotions THEN details[n].emotions[k] ELSE 0)

Abs(x) == IF x < 0 THEN -x ELSE x

\* C8: in a detailed forecast over n >= 1 entries, avgEmotions[k], for each
\* of joy, sadness, anger and fear, is the multiple of 0.01 nearest to the
\* sum of the entries' intensities for k (an absent key counting 0) divided
\* by n; joy intensities 1 and 3 give 2.00; and a request that reads no rows
\* is answered with the fixed message, without any average.
C8_AvgEmotionsRounded ==
    /\ (det.status = 200 /\ det.rows /= << >>) =>
          LET d == det.body.detailedResults
              n == Len(d)
          IN /\ n = Len(det.rows)
             /\ n >= 1
             /\ DOMAIN det.body.avgEmotions = {"joy", "sadness", "anger", "fear"}
             /\ \A k \in {"joy", "sadness", "anger", "fear"} :
                   2 * Abs(n * det.body.avgEmotions[k] - 100 * SumOver(d, k, n)) <= n
             /\ (n = 2 /\ SumOver(d, "joy", 1) = 1 /\ SumOver(d, "joy", 2) = 4) =>
                   det.body.avgEmotions["joy"] = 200
    /\ (det.pc = "done" /\ det.rows = << >> /\ det.status = 200) =>
          det.body = [forecast |-> "No entries available for historical analysis"]

\* a forecast over three entries whose joy sums to 4 and whose fear is absent
\* from one entry: the averages are 1.33 and 1.00
C8_Witness ==
    /\ det.status = 200
    /\ Len(det.rows) = 3
    /\ SumOver(det.body.detailedResults, "joy", 3) = 4
    /\ det.body.avgEmotions["joy"] = 133
    /\ \E i \in 1..3 : "fear" \notin DOMAIN det.body.detailedResults[i].emotions
    /\ det.body.avgEmotions["fear"] = 100

----------------------------------------------------------------------------
(* The three extractors on every raw text, under SpecExtract *)

\* the oracle has replied with any raw text
InitExtract ==
    /\ clock = ClockStart
    /\ store = << >>
    /\ creates = [r \in 1..MaxCreates |-> IdleCreate]
    /\ listResp = [sent |-> FALSE, rows |-> << >>]
    /\ fan = IdleFan
    /\ fc = IdleForecast
    /\ batch = IdleBatch
    /\ det = IdleDetailed
    /\ cm = IdleComment
    /\ full = IdleFull
    /\ ext \in [fn : {"none"}, raw : RawTexts, out : {Failure}]
    /\ oracleLog = {}

NextExtract ==
    \E fn \in Extractors : OracleReply(fn)

SpecExtract == InitExtract /\ [][NextExtract]_vars

\* commentary without braces: prose, white space and fences
Commentary == {"p", " ", "F", "J"}

\* raw is one JSON object, from index i to index j, with nothing but
\* commentary before and after it
ObjectWithCommentary(raw, i, j) ==
    /\ 1 <= i /\ i < j /\ j <= Len(raw)
    /\ ObjectEnd(SubSeq(raw, i, j), 1) = j - i + 2
    /\ \A n \in (1..(i - 1)) \cup ((j + 1)..Len(raw)) : raw[n] \in Commentary

\* C10 (as claimed): each of the three extractors, given a reply that is a
\* valid JSON object preceded or followed by brace-free commentary, yields
\* that object.
C10_ExtractorsAgree ==
    ext.fn /= "none" =>
        \A i, j \in 1..Len(ext.raw) :
            ObjectWithCommentary(ext.raw, i, j) =>
                /\ ext.out.ok
                /\ ext.out.value = JSONParse(SubSeq(ext.raw, i, j)).value

----------------------------------------------------------------------------
(* The order of the oracle calls of POST /api/future-detailed, under
   SpecDetailed *)

DetLog == { c \in oracleLog : c.by[1] = "detailed" }

\* analysis(e1), comment(e1), analysis(e2), comment(e2), ...
SerialCalls(n) ==
    [j \in 1..(2 * n) |->
        [fn |-> IF j % 2 = 1 THEN "analyzeText" ELSE "generateDailyComment",
         i |-> (j + 1) \div 2]]

\* C12: the oracle calls of a detailed forecast over rows e1..en, read in
\* ascending created_at order, are issued in the order analysis(e1),
\* comment(e1), analysis(e2), comment(e2), ..., each on the content of its
\* row and only when the call before it has completed, so that at most one
\* is in flight; a 200 response over n rows comes after exactly 2n calls and
\* its detailedResults list the rows in the order read.
C12_DetailedIsSerial ==
    LET n == Len(det.rows)
        m == Len(det.issued)
    IN /\ det.inflight \in {0, 1}
       /\ det.inflight = 1 <=> det.pc \in {"analysis", "comment"}
       /\ m <= 2 * n
       /\ det.issued = SubSeq(SerialCalls(n), 1, m)
       /\ Cardinality(DetLog) = m
       /\ \A j \in 1..m :
             Call(det.issued[j].fn, <<"detailed", 1, det.issued[j].i>>,
                  det.rows[det.issued[j].i].content) \in DetLog
       /\ NonDecreasing(det.rows)
       /\ det.pc \in {"analysis", "comment"} =>
             /\ m = 2 * Len(det.results) + (IF det.pc = "analysis" THEN 1 ELSE 2)
       /\ (det.status = 200 /\ n > 0) =>
             /\ m = 2 * n
             /\ det.inflight = 0
             /\ Len(det.body.detailedResults) = n
             /\ \A i \in 1..n :
                   /\ det.body.detailedResults[i].date = det.rows[i].created_at
                   /\ det.body.detailedResults[i].content = det.rows[i].content

\* a 200 response over three rows, stored at different times, after six calls
C12_Witness ==
    /\ det.status = 200
    /\ Len(det.rows) = 3
    /\ Len(det.issued) = 6
    /\ Cardinality(DetLog) = 6
    /\ StrLess(det.rows[1].created_at, det.rows[3].created_at)

----------------------------------------------------------------------------
(* The multi-item endpoints together: one judge-all or sabotage request, one
   detailed forecast and one batch of comments, interleaved, on the database
   of earlier runs *)

\* one item with each id
MultiBatchInputs ==
    { [has |-> TRUE, list |-> [i \in 1..MaxItems |-> [id |-> i, content |-> <<"a">>]]] }

\* one reply of each oracle function
MultiReplies(kind) == { CHOOSE r \in Replies(kind) : r \in Replies(kind) }

MultiAnalyses == { CHOOSE a \in SampleAnalyses : a.label = "positive" }

NextMulti ==
    \/ \E kind \in Kinds : FanBegin(kind)
    \/ \E i \in 1..MaxRows, reply \in MultiReplies(fan.kind) : FanCallOk(i, reply)
    \/ \E i \in 1..MaxRows : FanCallFail(i)
    \/ DetailedBegin
    \/ \E a \in MultiAnalyses : DetailedAnalysisOk(a)
    \/ \E c \in {"c1"} : DetailedCommentOk(c)
    \/ DetailedFail
    \/ \E input \in MultiBatchInputs : BatchBegin(input)
    \/ \E comment \in {"c1"} : BatchReplyOk(comment)
    \/ BatchReplyFail

SpecMulti == InitDetailed /\ [][NextMulti]_vars

\* C11: when the oracle call of any entry fails, judge-all, sabotage and the
\* detailed forecast answer 500 with their fixed error payload and nothing
\* else in it; each emits one response at most, however many of its calls
\* fail; a 200 response means no call failed and lists every row read. The
\* batch of comments alone answers 200 after a failure, with the placeholder
\* for the failed item.
C11_AllOrNothing ==
    /\ fan.sent <= 1
    /\ det.sent <= 1
    /\ fan.failed /= {} =>
          /\ fan.sent = 1
          /\ fan.status = 500
          /\ fan.body = (IF fan.kind = "judge"
                         THEN [error |-> "AI judge failed"]
                         ELSE [error |-> "Sabotage detector is not working"])
    /\ det.failed =>
          /\ det.sent = 1
          /\ det.status = 500
          /\ det.body = [error |-> "Failed to generate detailed forecast"]
    /\ (fan.status = 200 /\ fan.rows /= << >>) =>
          /\ fan.failed = {}
          /\ Len(fan.body.results) = Len(fan.rows)
          /\ \A i \in 1..Len(fan.rows) : fan.body.results[i] /= NoResult
    /\ (det.status = 200 /\ det.rows /= << >>) =>
          /\ ~det.failed
          /\ Len(det.body.detailedResults) = Len(det.rows)
    /\ (batch.pc = "done" /\ \E i \in 1..Len(batch.replies) : ~batch.replies[i].ok) =>
          /\ batch.status = 200
          /\ \A i \in 1..Len(batch.replies) :
                ~batch.replies[i].ok => batch.body.results[i].comment = "AI unavailable"

\* two concurrent calls of one request have failed after another succeeded,
\* a detailed forecast has failed after its first row, and a batch has
\* answered 200 after a failed item
C11_Witness ==
    /\ Cardinality(fan.failed) >= 2
    /\ \E i \in 1..Len(fan.rows) : fan.results[i] /= NoResult
    /\ fan.status = 500
    /\ fan.sent = 1
    /\ det.failed
    /\ Len(det.results) >= 1
    /\ det.status = 500
    /\ batch.status = 200
    /\ \E i \in 1..Len(batch.replies) : ~batch.replies[i].ok

----------------------------------------------------------------------------
(* Every endpoint at once: the requests the server receives in one run, on a
   new database file, in any interleaving *)

\* the requests received so far
Received ==
    Cardinality({ r \in 1..MaxCreates : creates[r].pc /= "idle" })
    + (IF listResp.sent THEN 1 ELSE 0)
    + (IF fan.pc /= "idle" THEN 1 ELSE 0)
    + (IF fc.pc /= "idle" THEN 1 ELSE 0)
    + (IF batch.pc /= "idle" THEN 1 ELSE 0)
    + (IF det.pc /= "idle" THEN 1 ELSE 0)
    + (IF cm.pc /= "idle" THEN 1 ELSE 0)
    + (IF full.pc /= "idle" THEN 1 ELSE 0)

\* another request may arrive
MayReceive == Received < MaxRequests

NextAll ==
    \/ Tick
    \/ MayReceive /\ \E r \in 1..MaxCreates : CreateBegin(r, Given(<<"a">>))
    \/ \E r \in 1..MaxCreates, a \in MultiAnalyses : CreateInsert(r, a)
    \/ \E r \in 1..MaxCreates : CreateFail(r)
    \/ MayReceive /\ GetEntries
    \/ MayReceive /\ CommentBegin(Given(<<"a">>))
    \/ CommentReplyOk("c1")
    \/ CommentReplyFail
    \/ MayReceive /\ \E body \in {Missing, Given(<<"x">>)} : ForecastBegin(body)
    \/ ForecastReplyOk("c1")
    \/ ForecastReplyFail
    \/ MayReceive /\ FullBegin
    \/ FullReplyOk("c1")
    \/ FullReplyFail
    \/ MayReceive /\ DetailedBegin
    \/ \E a \in MultiAnalyses : DetailedAnalysisOk(a)
    \/ DetailedCommentOk("c1")
    \/ DetailedFail
    \/ MayReceive /\ \E kind \in Kinds : FanBegin(kind)
    \/ \E i \in 1..MaxCreates, reply \in MultiReplies(fan.kind) : FanCallOk(i, reply)
    \/ \E i \in 1..MaxCreates : FanCallFail(i)
    \/ MayReceive /\ \E input \in MultiBatchInputs \cup {[has |-> FALSE, list |-> << >>]} :
                        BatchBegin(input)
    \/ BatchReplyOk("c1")
    \/ BatchReplyFail

SpecAll == Init /\ [][NextAll]_vars

\* the variables of every handler but POST /api/entries change in this step
OthersStep == exCreates' /= exCreates

\* C13: the store is append-only under any interleaving of requests to all
\* endpoints. A step that changes the store is the step of one create
\* request whose analysis succeeded, and it appends exactly the row that
\* request answers with; a create request whose analysis fails answers 500
\* and leaves the store unchanged; a step of any other endpoint leaves the
\* store unchanged; the rows already stored stay where they are with all
\* their fields.
C13_StoreAppendOnly ==
    [][/\ Len(store') >= Len(store)
       /\ SubSeq(store', 1, Len(store)) = store
       /\ store' /= store =>
             /\ ~OthersStep
             /\ \E r \in 1..MaxCreates :
                   /\ Created(r)
                   /\ \A q \in 1..MaxCreates : q /= r => creates'[q] = creates[q]
                   /\ store' = Append(store, creates'[r].entry)
       /\ \A r \in 1..MaxCreates :
             (creates[r].pc = "analyzing" /\ creates'[r].pc = "done"
                /\ creates'[r].status /= 200) =>
                /\ creates'[r].status = 500
                /\ store' = store
       /\ OthersStep => store' = store]_vars

\* one create request was answered 500 and another stored a row; a
\* judge-all or sabotage request then read that row and got its answer; the
\* store holds that one row, as the create request answered it
C13_Witness ==
    /\ \E r \in 1..MaxCreates : creates[r].status = 500
    /\ \E r \in 1..MaxCreates :
          /\ creates[r].status = 200
          /\ store = <<creates[r].entry>>
    /\ fan.pc = "done"
    /\ fan.rows = store
    /\ fan.status \in {200, 500}

====
